---- MODULE Spec2Model ----
(***************************************************************************)
(* Dream Book Shop data analysis: the Record Set, the six analysis         *)
(* strategies (src/src/analyzers.py), the AnalysisContext registry and the *)
(* menu loop of CLI.run (src/src/cli.py).                                  *)
(*                                                                         *)
(* A Record Set is a sequence of rows.  A row is a record with the five    *)
(* columns the strategies read.  The four text columns hold a string or    *)
(* the missing marker NA.  The publication date holds a DateValue:         *)
(*   t = "na"   missing (None / NaN)                                       *)
(*   t = "str"  a non-numeric string such as 'Invalid'                     *)
(*   t = "inf"  the float infinity (read_csv and to_numeric parse "inf")   *)
(*   t = "num"  a finite number, x2 = twice its value (so 2020.5 is 4041)  *)
(***************************************************************************)
EXTENDS Integers, Sequences, FiniteSets, TLC

VARIABLES
    data,       \* the Record Set handed to the strategies (CLI.data)
    results,    \* key -> the Analysis Result of the latest run of that strategy
    hist,       \* keys of the strategies run so far, in order
    analyzers,  \* AnalysisContext._analyzers: an insertion-ordered dict
    regLog,     \* the register_analyzer calls made so far, in order
    ret,        \* what the latest AnalysisContext call returned
    file,       \* what is stored at CLI.file_path
    pc,         \* position of CLI.run
    viz_type,   \* CLI.viz_type
    out         \* what CLI.run has done so far: inputs, strategy calls, prints, renders

vars == <<data, results, hist, analyzers, regLog, ret, file, pc, viz_type, out>>

\* ------------------------------------------------------------------ bounds
MaxRows == 2        \* rows of a Record Set in Spec
MaxRuns == 3        \* strategy runs in Spec
MaxTrendRows == 4   \* rows of a Record Set in SpecTrend
MaxAuthorRows == 6  \* rows of a Record Set in SpecAuthors
MaxGridRows == 4    \* rows of a Record Set in SpecGrid
MaxISBNRows == 5    \* rows of a Record Set in SpecISBN
MaxRegs == 4        \* register_analyzer calls in SpecRegistry
MaxInputs == 3      \* menu inputs in SpecCLI
MaxRepeats == 1     \* categories with a second row in SpecCollapse
MaxOver == 1        \* rows of a file beyond the loader's limit in SpecLoad

\* ------------------------------------------------------------------ helpers
Range(s) == {s[i] : i \in DOMAIN s}
BoundedSeq(S, n) == UNION {[1..k -> S] : k \in 0..n}
Min(a, b) == IF a <= b THEN a ELSE b

RECURSIVE SumSeq(_)
SumSeq(s) == IF s = <<>> THEN 0 ELSE Head(s) + SumSeq(Tail(s))

\* The elements of a finite set of integers in ascending order.
RECURSIVE SortedInts(_)
SortedInts(S) ==
    IF S = {} THEN <<>>
    ELSE LET m == CHOOSE x \in S : \A y \in S : x <= y
         IN <<m>> \o SortedInts(S \ {m})

\* ------------------------------------------------------------------ values
NA == "NaN"
NaT == [t |-> "na", x2 |-> 0]
Invalid == [t |-> "str", x2 |-> 0]
Inf == [t |-> "inf", x2 |-> 0]
Num(h) == [t |-> "num", x2 |-> h]
Year(y) == Num(2 * y)

Row(d, a, l, p, i) ==
    [date |-> d, author |-> a, language |-> l, publisher |-> p, isbn |-> i]

Column(df, c) == [i \in DOMAIN df |-> df[i][c]]

\* The strategies' keys, as CLI.__init__ registers them.
Keys == <<"1", "2", "3", "4", "5", "6">>

None == [kind |-> "none", val |-> <<>>]
Series(s) == [kind |-> "series", val |-> s]
Raised(e) == [kind |-> "raised", val |-> e]

\* ------------------------------------------------------------------ pandas
\* Series.isna on a text column.
isna(v) == v = NA

\* The distinct non-missing values of a column in order of first appearance
\* (value_counts drops missing values and keeps its keys in original order).
unique(col) ==
    LET firsts == SortedInts({i \in DOMAIN col :
                      ~isna(col[i]) /\ \A j \in 1..(i - 1) : col[j] # col[i]})
    IN [k \in DOMAIN firsts |-> col[firsts[k]]]

count(col, v) == Cardinality({i \in DOMAIN col : col[i] = v})

\* A sort that puts a later key before the earlier keys of the same count.
InsertTiesFirst(s, e) ==
    LET k == Cardinality({i \in DOMAIN s : s[i][2] > e[2]})
    IN SubSeq(s, 1, k) \o <<e>> \o SubSeq(s, k + 1, Len(s))

\* Series.sort_values(ascending=False) of a sequence of <<key, count>> pairs,
\* one insertion: descending by count, keys of equal count keeping the order
\* they come in (the order tests/test_analysis_logic.py expects of ties).
InsertDesc(s, e) ==
    LET k == Cardinality({i \in DOMAIN s : s[i][2] >= e[2]})
    IN SubSeq(s, 1, k) \o <<e>> \o SubSeq(s, k + 1, Len(s))

RECURSIVE sortFrom(_, _, _)
sortFrom(s, i, acc) ==
    IF i > Len(s) THEN acc ELSE sortFrom(s, i + 1, InsertDesc(acc, s[i]))

sort_values(s) == sortFrom(s, 1, <<>>)

\* Series.value_counts(): one <<value, count>> pair per distinct non-missing
\* value, sorted by descending count.
value_counts(col) ==
    LET u == unique(col)
    IN sort_values([i \in DOMAIN u |-> <<u[i], count(col, u[i])>>])

head(s, n) == SubSeq(s, 1, Min(n, Len(s)))

\* pd.to_numeric(errors='coerce') of one value: a non-numeric string becomes
\* missing; numbers (also when written as strings) and infinity are kept.
to_numeric(v) == IF v.t = "str" THEN NaT ELSE v

\* A conversion that rounds halves up.
astype_int_round(v) == (v.x2 + 1) \div 2

\* astype(int) of one finite float: the fraction is cut off (toward zero).
\* On a series that holds a non-finite value astype(int) raises
\* IntCastingNaNError; PublicationTrendAnalyzer states that case.
astype_int(v) == IF v.x2 >= 0 THEN v.x2 \div 2 ELSE -((-v.x2) \div 2)

\* Ascending order of publication-date group keys: numbers by value, then
\* infinity, then strings.
DateLE(a, b) ==
    \/ a.t = "num" /\ b.t = "num" /\ a.x2 <= b.x2
    \/ a.t = "num" /\ b.t # "num"
    \/ a.t = "inf" /\ b.t \in {"inf", "str"}
    \/ a.t = "str" /\ b.t = "str"

RECURSIVE SortedDates(_)
SortedDates(S) ==
    IF S = {} THEN <<>>
    ELSE LET m == CHOOSE x \in S : \A y \in S : DateLE(x, y)
         IN <<m>> \o SortedDates(S \ {m})

\* The text values of the model in alphabetical order (the order groupby
\* sorts its keys in).
Alphabetical ==
    <<"Arabic", "Chinese", "Dutch", "English", "French", "German", "Hindi",
      "Italian", "Japanese", "Korean", "Other", "Russian", "Sinhala",
      "Spanish", "Tamil">>

rank(s) == CHOOSE i \in DOMAIN Alphabetical : Alphabetical[i] = s

RECURSIVE SortedText(_)
SortedText(S) ==
    IF S = {} THEN <<>>
    ELSE LET m == CHOOSE x \in S : \A y \in S : rank(x) <= rank(y)
         IN <<m>> \o SortedText(S \ {m})

\* ------------------------------------------------------------------ scipy
\* stats.linregress(x, y) on integer samples.  Floats are kept as exact
\* fractions <<numerator, denominator>>; a zero denominator is NaN (0/0).
\* r_value is kept as its sign and its square.
linregress(x, y) ==
    LET n == Len(x)
        Sx == SumSeq(x)
        Sy == SumSeq(y)
        Sxx == SumSeq([i \in DOMAIN x |-> x[i] * x[i]])
        Sxy == SumSeq([i \in DOMAIN x |-> x[i] * y[i]])
        Syy == SumSeq([i \in DOMAIN y |-> y[i] * y[i]])
        ssxm == n * Sxx - Sx * Sx
        ssxym == n * Sxy - Sx * Sy
        ssym == n * Syy - Sy * Sy
    IN IF n = 0 THEN Raised("ValueError")
       ELSE IF n > 1 /\ \A i \in DOMAIN x : x[i] = x[1] THEN Raised("ValueError")
       ELSE [kind |-> "fit",
             val |-> [slope |-> <<ssxym, ssxm>>,
                      intercept |-> <<Sy * ssxm - ssxym * Sx, n * ssxm>>,
                      r_value |-> IF ssxm = 0 \/ ssym = 0
                                  THEN [sign |-> 0, sq |-> <<0, 1>>]
                                  ELSE [sign |-> IF ssxym > 0 THEN 1
                                                 ELSE IF ssxym < 0 THEN -1 ELSE 0,
                                        sq |-> <<ssxym * ssxym, ssxm * ssym>>]]]

\* ------------------------------------------------------------------ strategies
MinYear == 1000
MaxYear == 2100
TopN == 5

HasDate(r) == r.date.t # "na"
IsNumber(v) == v.t # "na"

InRange(y) == y > MinYear /\ y < MaxYear

\* The trend_line entry of a Trend Result: <<>> is None, <<t>> a Trend Line.
\* The description is kept as the three numbers it is formatted from.
TrendLine(trends) ==
    LET fit == linregress([i \in DOMAIN trends |-> trends[i][1]],
                          [i \in DOMAIN trends |-> trends[i][2]])
    IN IF fit.kind = "raised" THEN fit
       ELSE [kind |-> "fit",
             val |-> <<[slope |-> fit.val.slope,
                        intercept |-> fit.val.intercept,
                        r_value |-> fit.val.r_value,
                        description |-> <<"Linear Trend", fit.val.slope,
                                          fit.val.intercept, fit.val.r_value.sq>>]>>]

\* The fit without the test of line 28.
TrendOfUnguarded(trends) == TrendLine(trends)

\* Lines 28-45: the fit is made only when the Count Series is not empty.
TrendOf(trends) ==
    IF trends # <<>> THEN TrendLine(trends) ELSE [kind |-> "fit", val |-> <<>>]

PublicationTrendAnalyzer(df) ==
    LET kept == SelectSeq(df, HasDate)
        nums == SelectSeq([i \in DOMAIN kept |-> to_numeric(kept[i].date)], IsNumber)
    IN IF \E i \in DOMAIN nums : nums[i].t = "inf"
       THEN Raised("IntCastingNaNError")
       ELSE LET years == SelectSeq([i \in DOMAIN nums |-> astype_int(nums[i])], InRange)
                idx == SortedInts(Range(years))
                trends == [i \in DOMAIN idx |-> <<idx[i], count(years, idx[i])>>]
                tl == TrendOf(trends)
            IN IF tl.kind = "raised" THEN tl
               ELSE [kind |-> "trend",
                     val |-> [counts |-> trends, trend_line |-> tl.val]]

AuthorsAnalyzer(df) == Series(head(value_counts(Column(df, "author")), TopN))

LanguageDistributionAnalyzer(df) == Series(value_counts(Column(df, "language")))

PublisherAnalyzer(df) == Series(value_counts(Column(df, "publisher")))

\* present_count without the subtraction of line 82.
MissingISBNAnalyzerNoSubtract(df) ==
    LET total == Len(df)
        col == Column(df, "isbn")
        missing_count == Cardinality({i \in DOMAIN col : isna(col[i])})
    IN Series(<< <<"Missing ISBN", missing_count>>, <<"With ISBN", total>> >>)

\* Lines 79-87.
MissingISBNAnalyzer(df) ==
    LET total == Len(df)
        col == Column(df, "isbn")
        missing_count == Cardinality({i \in DOMAIN col : isna(col[i])})
        present_count == total - missing_count
    IN Series(<< <<"Missing ISBN", missing_count>>, <<"With ISBN", present_count>> >>)

\* groupby drops the rows in which a group key is missing.
Grouped(r) == r.date.t # "na" /\ ~isna(r.language)

\* 1 for a combination that has rows, whatever their number.
size_any(rows, d, l) ==
    IF \E k \in DOMAIN rows : rows[k].date = d /\ rows[k].language = l THEN 1 ELSE 0

\* size() of one group, and 0 (fill_value) for a combination with no rows.
size(rows, d, l) ==
    Cardinality({k \in DOMAIN rows : rows[k].date = d /\ rows[k].language = l})

LanguageYearAnalyzer(df) ==
    LET rows == SelectSeq(df, Grouped)
        index == SortedDates({rows[i].date : i \in DOMAIN rows})
        columns == SortedText({rows[i].language : i \in DOMAIN rows})
    IN [kind |-> "grid",
        val |-> [index |-> index,
                 columns |-> columns,
                 cells |-> [i \in DOMAIN index |-> [j \in DOMAIN columns |->
                               size(rows, index[i], columns[j])]]]]

\* IAnalyzer.analyze, dispatched on the strategy's class.
analyze(a, df) ==
    CASE a = "PublicationTrendAnalyzer" -> PublicationTrendAnalyzer(df)
      [] a = "AuthorsAnalyzer" -> AuthorsAnalyzer(df)
      [] a = "LanguageDistributionAnalyzer" -> LanguageDistributionAnalyzer(df)
      [] a = "PublisherAnalyzer" -> PublisherAnalyzer(df)
      [] a = "MissingISBNAnalyzer" -> MissingISBNAnalyzer(df)
      [] a = "LanguageYearAnalyzer" -> LanguageYearAnalyzer(df)

\* ------------------------------------------------------------------ registry
\* AnalysisContext._analyzers is a dict: a sequence of <<key, strategy>> pairs
\* in insertion order, at most one pair per key.
Absent == "None"

HasKey(d, k) == \E i \in DOMAIN d : d[i][1] = k

\* A registration that adds a pair also for a key that has one.
register_analyzer_append(d, k, a) == Append(d, <<k, a>>)

\* self._analyzers[key] = analyzer: the value of an existing key is replaced
\* where the key stands, a new key goes to the end.
register_analyzer(d, k, a) ==
    IF HasKey(d, k)
    THEN [i \in DOMAIN d |-> IF d[i][1] = k THEN <<k, a>> ELSE d[i]]
    ELSE Append(d, <<k, a>>)

get_analyzer(d, k) ==
    IF HasKey(d, k) THEN (CHOOSE p \in Range(d) : p[1] = k)[2] ELSE Absent

get_available_analyses(d) == [i \in DOMAIN d |-> d[i][1]]

\* The registry CLI.__init__ builds.
CLIAnalyzers ==
    LET d1 == register_analyzer(<<>>, "1", "PublicationTrendAnalyzer")
        d2 == register_analyzer(d1, "2", "AuthorsAnalyzer")
        d3 == register_analyzer(d2, "3", "LanguageDistributionAnalyzer")
        d4 == register_analyzer(d3, "4", "PublisherAnalyzer")
        d5 == register_analyzer(d4, "5", "MissingISBNAnalyzer")
    IN register_analyzer(d5, "6", "LanguageYearAnalyzer")

\* ------------------------------------------------------------------ running a strategy
\* The parts of the state a specification does not use.
NoCall == [op |-> "none", key |-> "", val |-> Absent]
NoFile == [kind |-> "missing", rows |-> <<>>]
NoRegistryCalls == analyzers = CLIAnalyzers /\ regLog = <<>> /\ ret = NoCall
NoCLI == file = NoFile /\ pc = "idle" /\ viz_type = "matplotlib" /\ out = <<>>
NoRuns == results = [k \in Range(Keys) |-> None] /\ hist = <<>>

\* dropna(subset=['publication date'], inplace=True) on the caller's frame.
dropna_inplace(k, df) == IF k = "1" THEN SelectSeq(df, HasDate) ELSE df

\* A run of strategy 1 that drops the rows in the frame it is given.
InvokeInPlace(k) ==
    /\ results' = [results EXCEPT ![k] = analyze(get_analyzer(analyzers, k), data)]
    /\ data' = dropna_inplace(k, data)
    /\ hist' = Append(hist, k)
    /\ UNCHANGED <<analyzers, regLog, ret, file, pc, viz_type, out>>

\* analyzer.analyze(data) for the strategy registered under k: the strategies
\* build new frames and series and assign nothing to the frame they are given.
Invoke(k) ==
    /\ results' = [results EXCEPT ![k] = analyze(get_analyzer(analyzers, k), data)]
    /\ hist' = Append(hist, k)
    /\ UNCHANGED <<data, analyzers, regLog, ret, file, pc, viz_type, out>>

AnalyzePublicationTrend == Len(hist) < MaxRuns /\ Invoke("1")
AnalyzeAuthors == Len(hist) < MaxRuns /\ Invoke("2")
AnalyzeLanguageDistribution == Len(hist) < MaxRuns /\ Invoke("3")
AnalyzePublisher == Len(hist) < MaxRuns /\ Invoke("4")
AnalyzeMissingISBN == Len(hist) < MaxRuns /\ Invoke("5")
AnalyzeLanguageYear == Len(hist) < MaxRuns /\ Invoke("6")

\* Record Sets of Spec: rows with missing, non-numeric and infinite values.
SampleRows ==
    { Row(Year(2020), "Author A", "English", "Pub 1", "123"),
      Row(NaT, "Author B", "Tamil", "Pub 2", NA),
      Row(Invalid, "Author A", NA, "Pub 1", "456"),
      Row(Inf, NA, "English", NA, "789") }

Init ==
    /\ data \in BoundedSeq(SampleRows, MaxRows)
    /\ NoRuns /\ NoRegistryCalls /\ NoCLI

Next ==
    \/ AnalyzePublicationTrend
    \/ AnalyzeAuthors
    \/ AnalyzeLanguageDistribution
    \/ AnalyzePublisher
    \/ AnalyzeMissingISBN
    \/ AnalyzeLanguageYear

\* Every strategy on every Record Set, in any order, repeatedly.
Spec == Init /\ [][Next]_vars

\* --- one strategy, run once, on every Record Set of a family
DefaultRow == Row(Year(2020), "Author A", "English", "Pub 1", "123")

TrendDates ==
    { NaT, Invalid, Inf, Year(1000), Num(2001), Year(1001), Year(2020),
      Num(4199), Year(2100) }

InitTrend ==
    /\ data \in BoundedSeq({[DefaultRow EXCEPT !.date = d] : d \in TrendDates}, MaxTrendRows)
    /\ NoRuns /\ NoRegistryCalls /\ NoCLI

TrendOnce == hist = <<>> /\ Invoke("1")

SpecTrend == InitTrend /\ [][TrendOnce]_vars

Authors == {"Author A", "Author B", "Author C", "Author D", "Author E", "Author F"}

\* Record Sets of SpecAuthors: every sequence of authors, and every such
\* sequence after a first row whose author is missing.
AuthorRows == {[DefaultRow EXCEPT !.author = a] : a \in Authors}

InitAuthors ==
    /\ data \in BoundedSeq(AuthorRows, MaxAuthorRows)
          \cup {<<[DefaultRow EXCEPT !.author = NA]>> \o d :
                  d \in BoundedSeq(AuthorRows, MaxAuthorRows - 1)}
    /\ NoRuns /\ NoRegistryCalls /\ NoCLI

AuthorsOnce == hist = <<>> /\ Invoke("2")

SpecAuthors == InitAuthors /\ [][AuthorsOnce]_vars

GridRows ==
    { [DefaultRow EXCEPT !.date = d, !.language = l] :
        d \in {NaT, Invalid, Year(2020), Year(2021)}, l \in {NA, "English", "Tamil"} }

InitGrid ==
    /\ data \in BoundedSeq(GridRows, MaxGridRows)
    /\ NoRuns /\ NoRegistryCalls /\ NoCLI

GridOnce == hist = <<>> /\ Invoke("6")

SpecGrid == InitGrid /\ [][GridOnce]_vars

InitISBN ==
    /\ data \in BoundedSeq({[DefaultRow EXCEPT !.isbn = i] : i \in {NA, "123", "456"}}, MaxISBNRows)
    /\ NoRuns /\ NoRegistryCalls /\ NoCLI

ISBNOnce == hist = <<>> /\ Invoke("5")

SpecISBN == InitISBN /\ [][ISBNOnce]_vars

\* ------------------------------------------------------------------ AnalysisContext
\* A fresh AnalysisContext, and any calls of its three methods.
InitRegistry ==
    /\ analyzers = <<>> /\ regLog = <<>> /\ ret = NoCall
    /\ data = <<>> /\ NoRuns /\ NoCLI

RegKeys == {"1", "2", "7"}
RegStrategies == {"AuthorsAnalyzer", "PublisherAnalyzer"}

Register ==
    /\ Len(regLog) < MaxRegs
    /\ \E k \in RegKeys, a \in RegStrategies :
        /\ analyzers' = register_analyzer(analyzers, k, a)
        /\ regLog' = Append(regLog, <<k, a>>)
        /\ ret' = [op |-> "register", key |-> k, val |-> Absent]
    /\ UNCHANGED <<data, results, hist, file, pc, viz_type, out>>

Get ==
    /\ \E k \in RegKeys :
        ret' = [op |-> "get", key |-> k, val |-> get_analyzer(analyzers, k)]
    /\ UNCHANGED <<data, results, hist, analyzers, regLog, file, pc, viz_type, out>>

List ==
    /\ ret' = [op |-> "list", key |-> "", val |-> get_available_analyses(analyzers)]
    /\ UNCHANGED <<data, results, hist, analyzers, regLog, file, pc, viz_type, out>>

NextRegistry == Register \/ Get \/ List

SpecRegistry == InitRegistry /\ [][NextRegistry]_vars

\* ------------------------------------------------------------------ CSVDataLoader
Limit == 5000

\* The cleaning pass of load_data on one row: the publication date is coerced
\* to a number, a non-numeric one becoming missing.
clean(r) == [r EXCEPT !.date = to_numeric(r.date)]

\* A load that reads the whole file.
load_data_unlimited(rows, limit) == [i \in DOMAIN rows |-> clean(rows[i])]

\* CSVDataLoader.load_data on a readable CSV file: the first `limit` rows, cleaned.
load_data(rows, limit) ==
    LET df == head(rows, limit) IN [i \in DOMAIN df |-> clean(df[i])]

\* ------------------------------------------------------------------ VisualizerFactory
get_visualizer(v) == IF v = "plotly" THEN "PlotlyVisualizer" ELSE "MatplotlibVisualizer"

\* ------------------------------------------------------------------ CLI.run
\* IAnalyzer.name of each strategy.
name(a) ==
    CASE a = "PublicationTrendAnalyzer" -> "Publication Trends Over Time"
      [] a = "AuthorsAnalyzer" -> "Top 5 Most Prolific Authors"
      [] a = "LanguageDistributionAnalyzer" -> "Language Distribution"
      [] a = "PublisherAnalyzer" -> "Number of books published by each publisher"
      [] a = "MissingISBNAnalyzer" -> "Missing ISBN Analysis"
      [] a = "LanguageYearAnalyzer" -> "Number of books published per year categorized by language"

\* str.lower on the menu inputs of the model.
lower(c) == CASE c = "Q" -> "q" [] c = "V" -> "v" [] OTHER -> c

Inputs == {"1", "2", "3", "4", "5", "6", "v", "V", "q", "Q", "7", "x"}

\* What run does, in order.
Printed(what, v) == [ev |-> "print", what |-> what, val |-> v]
Asked(c, v) == [ev |-> "input", choice |-> c, visualizer |-> v]
Analyzed(k, a) == [ev |-> "analyze", choice |-> k, analyzer |-> a]
Rendered(v, d, title, kind) ==
    [ev |-> "visualize", visualizer |-> v, data |-> d, title |-> title, chart_type |-> kind]

\* series[key] = value: the entry of an existing key is overwritten in place,
\* a new key is appended.
setitem(s, key, v) ==
    IF \E i \in DOMAIN s : s[i][1] = key
    THEN [i \in DOMAIN s |-> IF s[i][1] = key THEN <<key, v>> ELSE s[i]]
    ELSE Append(s, <<key, v>>)

TopCategories == 10

\* Lines 86-91 and 94-99: the ten first categories and 'Other' for the rest.
collapse(s) ==
    IF Len(s) > TopCategories
    THEN setitem(head(s, TopCategories), "Other",
                 SumSeq([i \in 1..(Len(s) - TopCategories) |-> s[TopCategories + i][2]]))
    ELSE s

\* Lines 68-77: the textual summary.
summary(choice, result) ==
    <<Printed("--- Textual Summary ---", <<>>)>> \o
    (IF result.kind = "trend"
     THEN <<Printed("counts", result.val.counts)>> \o
          (IF result.val.trend_line # <<>>
           THEN <<Printed("description", result.val.trend_line[1].description)>>
           ELSE <<>>)
     ELSE IF choice = "4" THEN <<Printed("to_string", result.val)>>
     ELSE IF choice # "6" THEN <<Printed("result", result.val)>>
     ELSE <<>>)

\* Lines 80-112: the chart kind of each analysis.
chart_type(choice) ==
    CASE choice \in {"1", "6"} -> "line"
      [] choice \in {"2", "3", "4"} -> "bar"
      [] choice = "5" -> "pie"

\* Lines 80-112: what is printed before the chart, and the chart.
visualization(choice, result, visualizer, title) ==
    CASE choice \in {"1", "2"} ->
            <<Rendered(visualizer, result.val, title, chart_type(choice))>>
      [] choice \in {"3", "4"} ->
            <<Rendered(visualizer, collapse(result.val), title, chart_type(choice))>>
      [] choice = "5" ->
            LET total == SumSeq([i \in DOMAIN result.val |-> result.val[i][2]])
                missing == result.val[1][2]
                present == result.val[2][2]
            IN << Printed("Total Books", total),
                  Printed("Missing ISBN", <<missing, <<missing * 100, total>> >>),
                  Printed("With ISBN", <<present, <<present * 100, total>> >>),
                  Rendered(visualizer, result.val, title, chart_type(choice)) >>
      [] choice = "6" ->
            << Printed("to_string", result.val),
               Rendered(visualizer, result.val, title, chart_type(choice)) >>

InputsRead == Cardinality({i \in DOMAIN out : out[i].ev = "input"})

\* Lines 28-34: the load, and the return on a load failure.
Load ==
    /\ pc = "start"
    /\ IF file.kind = "csv"
       THEN /\ data' = load_data(file.rows, Limit)
            /\ out' = out \o <<Printed("Loading data...", <<>>),
                               Printed("Data loaded successfully.", Len(data'))>>
            /\ pc' = "prompt"
       ELSE /\ out' = out \o <<Printed("Loading data...", <<>>),
                               Printed("Error loading data", file.kind)>>
            /\ pc' = "returned"
            /\ UNCHANGED data
    /\ UNCHANGED <<results, hist, analyzers, regLog, ret, file, viz_type>>

Menu == <<Printed("menu", viz_type)>>

\* Lines 53-54: q or Q ends the loop.
PromptQuit ==
    /\ pc = "prompt" /\ InputsRead < MaxInputs
    /\ \E choice \in Inputs :
        /\ lower(choice) = "q"
        /\ out' = out \o Menu \o <<Asked(choice, get_visualizer(viz_type))>>
    /\ pc' = "exited"
    /\ UNCHANGED <<data, results, hist, analyzers, regLog, ret, file, viz_type>>

\* A toggle that cannot switch back.
ToggleStuck ==
    /\ pc = "prompt" /\ InputsRead < MaxInputs
    /\ \E choice \in Inputs :
        /\ lower(choice) = "v"
        /\ out' = out \o Menu \o <<Asked(choice, get_visualizer(viz_type))>>
    /\ viz_type' = "plotly"
    /\ UNCHANGED <<data, results, hist, analyzers, regLog, ret, file, pc>>

\* Lines 56-61: v or V switches the backend name.
PromptToggle ==
    /\ pc = "prompt" /\ InputsRead < MaxInputs
    /\ \E choice \in Inputs :
        /\ lower(choice) = "v"
        /\ out' = out \o Menu \o <<Asked(choice, get_visualizer(viz_type))>>
    /\ viz_type' = IF viz_type = "matplotlib" THEN "plotly" ELSE "matplotlib"
    /\ UNCHANGED <<data, results, hist, analyzers, regLog, ret, file, pc>>

\* Lines 63-112: a registered key runs its strategy, prints the summary and
\* draws the chart; an exception of the strategy is not caught and ends run.
PromptAnalysis ==
    /\ pc = "prompt" /\ InputsRead < MaxInputs
    /\ \E choice \in Inputs :
        /\ lower(choice) \notin {"q", "v"}
        /\ get_analyzer(analyzers, choice) # Absent
        /\ LET visualizer == get_visualizer(viz_type)
               analyzer == get_analyzer(analyzers, choice)
               result == analyze(analyzer, data)
               begun == out \o Menu \o
                        <<Asked(choice, visualizer), Printed("Performing", name(analyzer)),
                          Analyzed(choice, analyzer)>>
           IN /\ results' = [results EXCEPT ![choice] = result]
              /\ hist' = Append(hist, choice)
              /\ IF result.kind = "raised"
                 THEN /\ out' = begun
                      /\ pc' = "raised"
                 ELSE /\ out' = begun \o summary(choice, result)
                                      \o visualization(choice, result, visualizer, name(analyzer))
                      /\ pc' = "prompt"
    /\ UNCHANGED <<data, analyzers, regLog, ret, file, viz_type>>

\* Lines 113-114: any other input.
PromptInvalid ==
    /\ pc = "prompt" /\ InputsRead < MaxInputs
    /\ \E choice \in Inputs :
        /\ lower(choice) \notin {"q", "v"}
        /\ get_analyzer(analyzers, choice) = Absent
        /\ out' = out \o Menu \o <<Asked(choice, get_visualizer(viz_type)),
                                    Printed("Invalid selection.", <<>>)>>
    /\ UNCHANGED <<data, results, hist, analyzers, regLog, ret, file, pc, viz_type>>

\* The files of SpecCLI: no file, an unreadable one, a CSV with no rows, and
\* CSVs with missing, non-numeric and infinite values.
Files ==
    { [kind |-> "missing", rows |-> <<>>],
      [kind |-> "malformed", rows |-> <<>>],
      [kind |-> "csv", rows |-> <<>>],
      [kind |-> "csv", rows |->
          << Row(Year(2020), "Author A", "English", "Pub 1", "123"),
             Row(Invalid, "Author B", "Tamil", NA, NA),
             Row(Year(2021), "Author A", NA, "Pub 1", "456"),
             Row(NaT, NA, "Tamil", "Pub 2", "789") >>],
      [kind |-> "csv", rows |->
          << Row(Year(2020), "Author A", "English", "Pub 1", "123"),
             Row(Inf, "Author B", "Tamil", "Pub 2", NA) >>] }

\* CLI.__init__: six strategies registered, no data, matplotlib.
InitCLI ==
    /\ file \in Files
    /\ data = <<>> /\ pc = "start" /\ viz_type = "matplotlib" /\ out = <<>>
    /\ NoRuns /\ NoRegistryCalls

NextCLI ==
    \/ Load
    \/ PromptQuit
    \/ PromptToggle
    \/ PromptAnalysis
    \/ PromptInvalid

SpecCLI == InitCLI /\ [][NextCLI]_vars

\* --- analyses 3 and 4 of run, once, on files of nine to twelve categories
\* The category names of SpecCollapse, in the order their first rows come.
Categories ==
    <<"English", "French", "German", "Hindi", "Italian", "Japanese", "Korean",
      "Russian", "Sinhala", "Spanish", "Tamil", "Other">>

CategoryRow(c) == Row(Year(2020), "Author A", c, c, "123")

\* One row for each category kept, then one more row for each category of
\* `repeated` (a second row of a kept category, the only row of another).
CategoryFile(kept, repeated) ==
    LET first == SelectSeq(Categories, LAMBDA c : c \in kept)
        again == SelectSeq(Categories, LAMBDA c : c \in repeated)
    IN [kind |-> "csv",
        rows |-> [i \in DOMAIN first |-> CategoryRow(first[i])] \o
                 [i \in DOMAIN again |-> CategoryRow(again[i])]]

CategoryFiles ==
    { CategoryFile(kept, repeated) :
        kept \in {S \in SUBSET Range(Categories) : Cardinality(S) >= TopCategories - 1},
        repeated \in {D \in SUBSET Range(Categories) : Cardinality(D) <= MaxRepeats} }

InitCollapse ==
    /\ file \in CategoryFiles
    /\ data = <<>> /\ pc = "start" /\ viz_type = "matplotlib" /\ out = <<>>
    /\ NoRuns /\ NoRegistryCalls

CollapseOnce == hist = <<>> /\ PromptAnalysis /\ hist'[1] \in {"3", "4"}

NextCollapse == Load \/ CollapseOnce

SpecCollapse == InitCollapse /\ [][NextCollapse]_vars

\* --- the load and the first prompt of run, on files around the row limit
\* A file of n rows: the rows within the limit alike, the rows beyond it
\* from another author.
LongFile(n, r) ==
    [kind |-> "csv",
     rows |-> [i \in 1..n |-> IF i <= Limit THEN r ELSE [r EXCEPT !.author = "Author B"]]]

LoadFiles ==
    { [kind |-> "missing", rows |-> <<>>], [kind |-> "malformed", rows |-> <<>>] } \cup
    { LongFile(n, r) :
        n \in (0..2) \cup ((Limit - 1)..(Limit + MaxOver)),
        r \in {DefaultRow, [DefaultRow EXCEPT !.date = Invalid]} }

InitLoad ==
    /\ file \in LoadFiles
    /\ data = <<>> /\ pc = "start" /\ viz_type = "matplotlib" /\ out = <<>>
    /\ NoRuns /\ NoRegistryCalls

FirstQuit == InputsRead = 0 /\ PromptQuit
FirstToggle == InputsRead = 0 /\ PromptToggle
FirstAnalysis == InputsRead = 0 /\ PromptAnalysis
FirstInvalid == InputsRead = 0 /\ PromptInvalid

NextLoad ==
    \/ Load
    \/ FirstQuit
    \/ FirstToggle
    \/ FirstAnalysis
    \/ FirstInvalid

SpecLoad == InitLoad /\ [][NextLoad]_vars

\* ================================================================== claims
Ran(k) == results[k].kind # "none"

\* C1: for every Record Set, the empty one included, MissingISBNAnalyzer
\* returns exactly the two keys 'Missing ISBN' and 'With ISBN' in that order;
\* the first is the number of rows whose ISBN is missing, the second the
\* number of rows whose ISBN is present, and they sum to the row count.
C1_MissingISBNCounts ==
    Ran("5") =>
        /\ results["5"].kind = "series"
        /\ Len(results["5"].val) = 2
        /\ results["5"].val[1][1] = "Missing ISBN"
        /\ results["5"].val[2][1] = "With ISBN"
        /\ results["5"].val[1][2] = Cardinality({i \in DOMAIN data : data[i].isbn = NA})
        /\ results["5"].val[2][2] = Cardinality({i \in DOMAIN data : data[i].isbn # NA})
        /\ results["5"].val[1][2] + results["5"].val[2][2] = Len(data)

C1_Witness ==
    /\ Ran("5")
    /\ \E i \in DOMAIN data : data[i].isbn = NA
    /\ \E i \in DOMAIN data : data[i].isbn # NA

\* The keys of a Count Series, and the publication dates that are numbers.
KeysOf(s) == [i \in DOMAIN s |-> s[i][1]]
Ascending(s) == \A i, j \in DOMAIN s : i < j => s[i] < s[j]
RowsWithYear(y) == {i \in DOMAIN data : data[i].date.t = "num" /\ data[i].date.x2 = 2 * y}
RowsInYear(y) ==
    {i \in DOMAIN data : data[i].date.t = "num" /\ data[i].date.x2 \in {2 * y, 2 * y + 1}}

\* C2 as stated: the keys of the Publication Trend Count Series are exactly
\* the integer years y, 1000 < y < 2100, that occur as a numeric publication
\* date, each mapped to the number of rows with that date, in ascending order.
C2_KeysAreDatesThatOccur ==
    results["1"].kind = "trend" =>
        LET c == results["1"].val.counts
        IN /\ Ascending(KeysOf(c))
           /\ \A i \in DOMAIN c :
                /\ c[i][1] > 1000 /\ c[i][1] < 2100
                /\ RowsWithYear(c[i][1]) # {}
                /\ c[i][2] = Cardinality(RowsWithYear(c[i][1]))
           /\ \A i \in DOMAIN data :
                (data[i].date.t = "num" /\ data[i].date.x2 \in {2 * y : y \in 1001..2099})
                    => data[i].date.x2 \div 2 \in Range(KeysOf(c))

\* C2 as amended: the keys are exactly the integer years y, 1000 < y < 2100,
\* that are the integer part of a finite numeric publication date (y <= date
\* < y + 1) of at least one row, each mapped to the number of such rows, in
\* ascending order; rows with a missing or non-numeric date contribute to no
\* key, and no key y <= 1000 or y >= 2100 appears.
C2_KeysAreIntegerParts ==
    results["1"].kind = "trend" =>
        LET c == results["1"].val.counts
        IN /\ Ascending(KeysOf(c))
           /\ \A i \in DOMAIN c :
                /\ c[i][1] > 1000 /\ c[i][1] < 2100
                /\ RowsInYear(c[i][1]) # {}
                /\ c[i][2] = Cardinality(RowsInYear(c[i][1]))
           /\ \A i \in DOMAIN data :
                (data[i].date.t = "num" /\ data[i].date.x2 >= 2002 /\ data[i].date.x2 < 4200)
                    => data[i].date.x2 \div 2 \in Range(KeysOf(c))

C2_Witness ==
    /\ results["1"].kind = "trend"
    /\ Len(results["1"].val.counts) >= 2
    /\ \E i \in DOMAIN data : data[i].date = Num(4199)
    /\ \E i \in DOMAIN data : data[i].date = Year(1000)
    /\ \E i \in DOMAIN data : data[i].date.t \in {"na", "str"}

\* The distinct authors of the Record Set with, for each, the number of its
\* rows and its first row.
AuthorSet == {data[i].author : i \in DOMAIN data} \ {NA}
AuthorCount == [a \in AuthorSet |-> Cardinality({i \in DOMAIN data : data[i].author = a})]
FirstRow == [a \in AuthorSet |-> CHOOSE i \in DOMAIN data :
                data[i].author = a /\ \A j \in 1..(i - 1) : data[j].author # a]

DatesPresent == {data[i].date : i \in DOMAIN data} \ {NaT}
LanguagesPresent == {data[i].language : i \in DOMAIN data} \ {NA}
PairRows(d, l) == {i \in DOMAIN data : data[i].date = d /\ data[i].language = l}
DatesPaired == {d \in DatesPresent : \E l \in LanguagesPresent : PairRows(d, l) # {}}
LanguagesPaired == {l \in LanguagesPresent : \E d \in DatesPresent : PairRows(d, l) # {}}
StrictlyAscendingDates(s) ==
    \A i, j \in DOMAIN s : i < j => DateLE(s[i], s[j]) /\ s[i] # s[j]
NoRepeats(s) == \A i, j \in DOMAIN s : i # j => s[i] # s[j]
GridCells(g) ==
    \A i \in DOMAIN g.index : \A j \in DOMAIN g.columns :
        g.cells[i][j] = Cardinality(PairRows(g.index[i], g.columns[j]))

\* C4 as stated: the grid's rows are the distinct publication-date values in
\* ascending order, its columns the distinct language values; the cell of a
\* (year, language) pair present in the input is the number of input rows
\* with that pair, and every other cell is 0.
C4_GridOverAllValues ==
    Ran("6") =>
        LET g == results["6"].val
        IN /\ results["6"].kind = "grid"
           /\ Range(g.index) = DatesPresent
           /\ Range(g.columns) = LanguagesPresent
           /\ StrictlyAscendingDates(g.index)
           /\ NoRepeats(g.columns)
           /\ GridCells(g)

\* C4 as amended: the grid's rows are the distinct publication-date values,
\* in ascending order, and its columns the distinct language values of the
\* input rows in which both the publication date and the language are
\* present; the cell of a (year, language) pair is the number of input rows
\* with that pair, which is 0 for a pair no row has.
C4_GridOverPairedValues ==
    Ran("6") =>
        LET g == results["6"].val
        IN /\ results["6"].kind = "grid"
           /\ Range(g.index) = DatesPaired
           /\ Range(g.columns) = LanguagesPaired
           /\ StrictlyAscendingDates(g.index)
           /\ NoRepeats(g.columns)
           /\ GridCells(g)

C4_Witness ==
    /\ Ran("6")
    /\ Len(results["6"].val.index) = 2
    /\ Len(results["6"].val.columns) = 2
    /\ \E i, j \in 1..2 : results["6"].val.cells[i][j] = 0
    /\ \E i, j \in 1..2 : results["6"].val.cells[i][j] = 2
    /\ DatesPaired # DatesPresent

\* C5: PublicationTrendAnalyzer.analyze returns for every Record Set, and
\* its Trend Line is absent exactly when the Count Series is empty.
C5_TrendNeverRaises ==
    Ran("1") =>
        /\ results["1"].kind = "trend"
        /\ results["1"].val.trend_line = <<>> <=> results["1"].val.counts = <<>>

\* An empty result of each shape.
IsEmptyResult(r) ==
    \/ r.kind = "series" /\ r.val = <<>>
    \/ r.kind = "trend" /\ r.val.counts = <<>>
    \/ r.kind = "grid" /\ r.val.index = <<>> /\ r.val.columns = <<>>

\* C6 as stated: each of the six strategies, run on the empty Record Set,
\* yields an empty Count Series and no error.
C6_EmptyInEmptyOut ==
    data = <<>> => \A k \in Range(Keys) : Ran(k) => IsEmptyResult(results[k])

\* C6 as amended: on the empty Record Set no strategy produces an error;
\* strategies 1, 2, 3, 4 and 6 yield an empty result (strategy 1 with no
\* Trend Line), and strategy 5 yields the two-entry Count Series
\* 'Missing ISBN': 0, 'With ISBN': 0.
C6_EmptyRecordSet ==
    data = <<>> =>
        /\ \A k \in Range(Keys) \ {"5"} : Ran(k) => IsEmptyResult(results[k])
        /\ Ran("1") => results["1"].val.trend_line = <<>>
        /\ Ran("5") => results["5"] = Series(<< <<"Missing ISBN", 0>>, <<"With ISBN", 0>> >>)

C6_Witness ==
    /\ data = <<>>
    /\ Ran("1") /\ Ran("5") /\ Ran("6")

RegisteredKeys == {regLog[i][1] : i \in DOMAIN regLog}
FirstReg(k) == CHOOSE i \in DOMAIN regLog :
                  regLog[i][1] = k /\ \A j \in 1..(i - 1) : regLog[j][1] # k
LatestReg(k) == CHOOSE i \in DOMAIN regLog :
                  regLog[i][1] = k /\ \A j \in (i + 1)..Len(regLog) : regLog[j][1] # k
InRegistrationOrder(l) ==
    /\ NoRepeats(l)
    /\ Range(l) = RegisteredKeys
    /\ \A i, j \in DOMAIN l : i < j => FirstReg(l[i]) < FirstReg(l[j])
LatestStrategy(k) == IF k \in RegisteredKeys THEN regLog[LatestReg(k)][2] ELSE Absent

\* C7: after any sequence of register_analyzer, get_analyzer and
\* get_available_analyses calls, get_analyzer(k) returns the strategy most
\* recently registered under k, or the absent marker if k was never
\* registered; get_available_analyses returns every registered key exactly
\* once, in the order the keys were first registered; and the two queries
\* leave the registry as the registrations made it.
C7_Registry ==
    /\ InRegistrationOrder(KeysOf(analyzers))
    /\ \A i \in DOMAIN analyzers : analyzers[i][2] = LatestStrategy(analyzers[i][1])
    /\ ret.op = "get" => ret.val = LatestStrategy(ret.key)
    /\ ret.op = "list" => InRegistrationOrder(ret.val)

C7_Witness ==
    /\ ret.op = "get"
    /\ Len(regLog) >= 3
    /\ regLog[1][1] = ret.key /\ regLog[3][1] = ret.key
    /\ regLog[1][2] # regLog[3][2]
    /\ regLog[2][1] # ret.key
    /\ \E k \in RegKeys : k \notin RegisteredKeys

\* The toggle inputs among the first n things run has done, and the backend
\* they select.
Toggles(n) == Cardinality({i \in 1..n : out[i].ev = "input" /\ out[i].choice \in {"v", "V"}})
Selected(n) == IF Toggles(n) % 2 = 1 THEN "plotly" ELSE "matplotlib"
NextInput(i) ==
    IF \E j \in (i + 1)..Len(out) : out[j].ev = "input"
    THEN CHOOSE j \in (i + 1)..Len(out) :
            out[j].ev = "input" /\ \A m \in (i + 1)..(j - 1) : out[m].ev # "input"
    ELSE Len(out) + 1
After(i) == (i + 1)..(NextInput(i) - 1)

\* C9: the backend name is always 'matplotlib' or 'plotly'; it starts as
\* 'matplotlib' and is 'plotly' exactly after an odd number of v/V inputs (so
\* each toggle flips it and no other input changes it); a toggle invokes no
\* strategy and no render; every render is made on the backend selected when
\* it is made.
C9_Backend ==
    /\ viz_type \in {"matplotlib", "plotly"}
    /\ viz_type = Selected(Len(out))
    /\ \A i \in DOMAIN out :
        /\ (out[i].ev = "input" /\ out[i].choice \in {"v", "V"}) =>
              \A j \in After(i) : out[j].ev \notin {"analyze", "visualize"}
        /\ out[i].ev = "visualize" =>
              out[i].visualizer = IF Selected(i) = "plotly" THEN "PlotlyVisualizer"
                                  ELSE "MatplotlibVisualizer"

C9_Witness ==
    /\ Toggles(Len(out)) = 2
    /\ viz_type = "matplotlib"
    /\ \E i \in DOMAIN out : out[i].ev = "visualize" /\ out[i].visualizer = "PlotlyVisualizer"

ChartKind ==
    [k \in Range(Keys) |-> IF k \in {"1", "6"} THEN "line" ELSE IF k = "5" THEN "pie" ELSE "bar"]

\* C10: each input that is a registered key '1'..'6' causes exactly one
\* strategy invocation, then the textual summary, then exactly one render
\* whose chart kind is 1->line, 2->bar, 3->bar, 4->bar, 5->pie, 6->line.
C10_AnalyzeSummaryRender ==
    \A i \in DOMAIN out :
        (out[i].ev = "input" /\ out[i].choice \in Range(Keys)) =>
            /\ Cardinality({j \in After(i) : out[j].ev = "analyze"}) = 1
            /\ Cardinality({j \in After(i) : out[j].ev = "visualize"}) = 1
            /\ \E a, t, v \in After(i) :
                /\ a < t /\ t < v
                /\ out[a].ev = "analyze" /\ out[a].choice = out[i].choice
                /\ out[t].ev = "print" /\ out[t].what = "--- Textual Summary ---"
                /\ out[v].ev = "visualize" /\ out[v].chart_type = ChartKind[out[i].choice]

\* The input a step of the loop reads: what run appends after the menu.
ChoiceRead == out'[Len(out) + 2].choice
DoneInStep == {out'[i].ev : i \in (Len(out) + 1)..Len(out')}

\* C11: after a successful load the loop ends exactly when 'q' or 'Q' is
\* entered: a toggle, a registered key and an invalid selection each lead to
\* another prompt; and an input that is neither q/v (in either case) nor a
\* registered key invokes no strategy and no render and leaves the Record
\* Set, the registry and the backend name unchanged.
C11_LoopEndsOnlyOnQuit ==
    [][pc = "prompt" =>
        /\ pc' = IF lower(ChoiceRead) = "q" THEN "exited" ELSE "prompt"
        /\ (lower(ChoiceRead) \notin {"q", "v"} /\ ~HasKey(analyzers, ChoiceRead)) =>
              /\ DoneInStep \cap {"analyze", "visualize"} = {}
              /\ hist' = hist
              /\ data' = data /\ analyzers' = analyzers /\ viz_type' = viz_type]_vars

\* The renders of analyses 3 and 4, and the Count Series each was made from.
DistributionKey ==
    [t \in {"Language Distribution", "Number of books published by each publisher"} |->
        IF t = "Language Distribution" THEN "3" ELSE "4"]
Total(s) == SumSeq([i \in DOMAIN s |-> s[i][2]])

\* C12: what analyses 3 and 4 pass to the rendering sink is, for a Count
\* Series of more than 10 categories, its 10 first (highest-count) entries
\* followed by one more entry 'Other' that counts all the remaining
\* categories (11 entries with the total of the full series), and for a Count
\* Series of at most 10 categories the series itself, whatever the names.
C12_TopTenAndOther ==
    \A i \in DOMAIN out :
        (out[i].ev = "visualize" /\ out[i].title \in DOMAIN DistributionKey) =>
            LET s == results[DistributionKey[out[i].title]].val
                d == out[i].data
            IN IF Len(s) > 10
               THEN /\ Len(d) = 11
                    /\ \A j \in 1..10 : d[j] = s[j]
                    /\ d[11][1] = "Other"
                    /\ d[11][2] = Total(s) - Total(SubSeq(s, 1, 10))
                    /\ Total(d) = Total(s)
               ELSE d = s

Loads == {i \in DOMAIN out : out[i].ev = "print" /\ out[i].what = "Loading data..."}
Prompts == {i \in DOMAIN out : out[i].ev \in {"input", "analyze", "visualize"}}

\* C13: run loads the Record Set exactly once, before the first prompt, and
\* the Record Set is the first rows of the file, at most the limit of 5000;
\* when the load fails (no such path, malformed content) run prints an error
\* and returns without raising, and never prompts, invokes a strategy or
\* renders.
C13_LoadOnceWithinLimit ==
    /\ Len(data) <= Limit
    /\ pc # "start" =>
        /\ Loads = {1}
        /\ \A i \in Prompts : i > 2
        /\ IF file.kind = "csv"
           THEN /\ out[2] = Printed("Data loaded successfully.", Len(data))
                /\ Len(data) = Min(Len(file.rows), Limit)
                /\ \A i \in DOMAIN data :
                    /\ data[i] = [file.rows[i] EXCEPT !.date = data[i].date]
                    /\ data[i].date.t # "str"
                    /\ file.rows[i].date.t # "str" => data[i].date = file.rows[i].date
           ELSE /\ pc = "returned"
                /\ out = <<Printed("Loading data...", <<>>),
                           Printed("Error loading data", file.kind)>>
                /\ Prompts = {} /\ hist = <<>> /\ data = <<>>

C13_Witness ==
    /\ file.kind = "csv" /\ Len(file.rows) > Limit
    /\ Len(data) = Limit
    /\ InputsRead = 1 /\ hist # <<>>

====
